---------------------------- MODULE Spec2Model ----------------------------
(***************************************************************************)
(* Model of the Depop scraper: the library pipeline                        *)
(* (depop_scraper_lib.scrape_depop / _scrape_depop_async), the Streamlit   *)
(* script pipeline (depop_scraper.scrape_depop, infinite_collect,          *)
(* deep_fetch_worker), the merge of a detail-page result onto its         *)
(* shallow row, infinite_collect as a function of its limits, the          *)
(* deep-fetch pass of both pipelines from given rows, DETAIL_EXTRACT_JS of *)
(* both pipelines as a function of the detail page,                        *)
(* creds_loader.authorize_gspread, and the pages that save and show the    *)
(* rows (app.py and the run block of depop_scraper.py).                    *)
(*                                                                         *)
(* Text is modelled as a sequence of one-character strings, so that        *)
(* strip / split / replace / prefix tests are computed as the code         *)
(* computes them.                                                          *)
(***************************************************************************)
EXTENDS Integers, Sequences, FiniteSets, TLC

(***************************************************************************)
(* Bounds of the model.                                                    *)
(***************************************************************************)
MaxAnchors == 2          \* anchors the page shows at one time
MaxItemsBound == 2       \* MAX_ITEMS is drawn from 1..MaxItemsBound
MaxDurationBound == 3    \* MAX_DURATION_S is drawn from 2..MaxDurationBound (ticks)
MaxDeepBound == 2        \* DEEP_FETCH_MAX is drawn from 1..MaxDeepBound
MaxConcurrency == 2      \* DEEP_FETCH_CONCURRENCY is drawn from 1..MaxConcurrency

(***************************************************************************)
(* Text helpers (Python str / JS String methods used by the code).         *)
(***************************************************************************)
Whitespace == {" "}
Digits == {"0", "1", "2", "3", "4", "5", "6", "7", "8", "9"}
CurrencySymbols == {"$", "£", "€"}

RECURSIVE LStrip(_)
LStrip(s) == IF s # <<>> /\ Head(s) \in Whitespace THEN LStrip(Tail(s)) ELSE s

RECURSIVE RStrip(_)
RStrip(s) ==
    IF s # <<>> /\ s[Len(s)] \in Whitespace
    THEN RStrip(SubSeq(s, 1, Len(s) - 1))
    ELSE s

\* str.strip() / String.prototype.trim()
Strip(s) == RStrip(LStrip(s))

\* str.rstrip("/"): removes every trailing slash
RECURSIVE RStripSlashes(_)
RStripSlashes(s) ==
    IF s # <<>> /\ s[Len(s)] = "/"
    THEN RStripSlashes(SubSeq(s, 1, Len(s) - 1))
    ELSE s

\* href.replace(/\/$/, ''): removes one trailing slash
DropOneSlash(s) ==
    IF s # <<>> /\ s[Len(s)] = "/" THEN SubSeq(s, 1, Len(s) - 1) ELSE s

\* s.split("/")[-1]  /  s.split('/').pop()
LastSegment(s) ==
    LET slashes == {i \in 1..Len(s) : s[i] = "/"}
        last == IF slashes = {} THEN 0
                ELSE CHOOSE i \in slashes : \A j \in slashes : j <= i
    IN SubSeq(s, last + 1, Len(s))

\* s.replace("-", " ")
DashesToSpaces(s) == [i \in 1..Len(s) |-> IF s[i] = "-" THEN " " ELSE s[i]]

LowerChar(c) ==
    CASE c = "N" -> "n"
      [] c = "A" -> "a"
      [] c = "B" -> "b"
      [] c = "C" -> "c"
      [] c = "U" -> "u"
      [] OTHER -> c

\* str.lower() / toLowerCase()
Lower(s) == [i \in 1..Len(s) |-> LowerChar(s[i])]

\* startswith / startsWith
StartsWith(s, p) == Len(p) <= Len(s) /\ SubSeq(s, 1, Len(p)) = p

\* "c in s"
Contains(s, c) == \E i \in 1..Len(s) : s[i] = c

\* urllib.parse.quote_plus on the characters the model uses
QuotePlus(s) == [i \in 1..Len(s) |-> IF s[i] = " " THEN "+" ELSE s[i]]

(***************************************************************************)
(* Program constants and the page universe.                                *)
(***************************************************************************)
Origin == <<"h","t","t","p","s",":","/","/","w","w","w",".","d","e","p","o","p",".","c","o","m">>
ProductsPrefix == <<"/","p","r","o","d","u","c","t","s","/">>
SearchPrefix == <<"/","s","e","a","r","c","h","/","?","q","=">>
Term == <<"a"," ","b">>
NA == <<"N","/","A">>
BrandMaxLen == 40

\* hrefs matched by a[href^='/products/']
HrefNA == ProductsPrefix \o <<"n","-","a">>
HrefB == ProductsPrefix \o <<"b">>
HrefC == ProductsPrefix \o <<"c","/">>
Hrefs == {HrefNA, HrefB, HrefC}

PriceText == <<"$","5">>
BrandText == <<"N">>

\* the <p> texts of a result card
Cards == { <<>>, <<BrandText, PriceText>> }

Anchors == [href : Hrefs, ps : Cards]

RECURSIVE SeqsUpTo(_, _)
SeqsUpTo(S, n) ==
    IF n = 0 THEN { <<>> }
    ELSE LET shorter == SeqsUpTo(S, n - 1)
         IN shorter \cup { Append(q, x) : q \in { r \in shorter : Len(r) = n - 1 }, x \in S }

\* what document.querySelectorAll can return at one time
PageViews == SeqsUpTo(Anchors, MaxAnchors)

(***************************************************************************)
(* Rows.                                                                   *)
(***************************************************************************)
Row(brand, item_name, price, size, condition, link) ==
    [platform |-> "Depop", brand |-> brand, item_name |-> item_name,
     price |-> price, size |-> size, condition |-> condition, link |-> link]

\* the synthetic row of depop_scraper_lib (import failure, no browser, launch failure)
SampleRow ==
    Row(<<"S","u","p","r","e","m","e">>,
        Term \o <<" ","(","s","a","m","p","l","e",")">>,
        <<"$","1","9","9">>,
        <<"L">>,
        <<"G","o","o","d"," ","c","o","n","d","i","t","i","o","n">>,
        Origin \o SearchPrefix \o QuotePlus(Term))


(***************************************************************************)
(* State.                                                                  *)
(***************************************************************************)
VARIABLES
    pc,            \* position of the pipeline
    deep,          \* the deep argument
    max_items,     \* limits["MAX_ITEMS"]
    max_seconds,   \* limits["MAX_DURATION_S"], in ticks
    warmup,        \* infinite_collect: the warmup parameter (limits["WARMUP_ROUNDS"])
    deep_max,      \* limits["DEEP_FETCH_MAX"], read when deep fetch starts
    concurrency,   \* limits["DEEP_FETCH_CONCURRENCY"], read when deep fetch starts
    seen,          \* lib: the set seen; script: window.__depopSeen in insertion order
    rows,          \* lib: rows; script: list_rows
    round,         \* collection rounds started so far
    elapsed,       \* ticks since start = time.time()
    stable,        \* infinite_collect: stable
    last_total,    \* infinite_collect: last_total
    stopped,       \* why the collection loop ended: "", "cap", "stall", "time", "rounds"
    grew,          \* the last round whose total differed from the round before (0: none)
    workers,       \* the deep-fetch tasks handed to asyncio.gather
    sem,           \* free slots of the asyncio.Semaphore
    results_out,   \* script: the list shared by the deep_fetch_worker tasks
    result,        \* the list the scrape returned
    outcome,       \* "running", "returned" or "raised"
    navAttempted,  \* page.goto(base_url) was called
    browser,       \* "none", "open" or "closed"
    base,          \* merge check: the shallow row
    details,       \* merge check: the detail-page result
    merged,        \* merge check: the merged row, <<>> before the merge
    dom,           \* extraction check: the detail page DETAIL_EXTRACT_JS reads
    ui,            \* which page runs: "app" (app.py), "script" (depop_scraper.py), "none"
    gc,            \* the gspread client: "unset", "none" or the credential source it came from
    creds,         \* authorize_gspread: its argument and the environment it reads
    tried,         \* authorize_gspread: the credential sources attempted, in order
    sheet,         \* the rows appended to the worksheet
    shown,         \* the rows in the results table
    csv,           \* the rows offered by the CSV download button
    notices,       \* the messages the page has shown
    exc            \* authorize_gspread: the kind of the exception it raised, "" for none

vars == <<pc, deep, max_items, max_seconds, warmup, deep_max, concurrency, seen, rows,
          round, elapsed, stable, last_total, stopped, grew, workers, sem, results_out,
          result, outcome, navAttempted, browser, base, details, merged, dom,
          ui, exc, gc, creds, tried, sheet, shown, csv, notices>>

cfgVars == <<deep, max_items, max_seconds, warmup>>
deepCfgVars == <<deep_max, concurrency>>
collectVars == <<seen, rows, round, elapsed, stable, last_total, stopped, grew>>
deepVars == <<workers, sem, results_out>>
mergeVars == <<base, details, merged, dom>>
uiVars == <<ui, exc, gc, creds, tried, sheet, shown, csv, notices>>

(***************************************************************************)
(* Detail pages and the merge of a detail result onto the shallow row.     *)
(***************************************************************************)
DetailTitle == <<"T">>
DetailPrice == <<"$","9">>
DetailSize == <<"M">>
DetailCondition == <<"U","s","e","d">>

AllDetails ==
    [title : {<<>>, DetailTitle}, price : {<<>>, DetailPrice},
     size : {<<>>, DetailSize}, condition : {<<>>, DetailCondition}]

\* details = {} / data = {} after a failed evaluation: every .get() is None
NoDetails == [title |-> <<>>, price |-> <<>>, size |-> <<>>, condition |-> <<>>]

\* what page.evaluate(DETAIL_EXTRACT_JS) returns for a detail page of the pipelines
DetailPages ==
    { [title |-> DetailTitle, price |-> DetailPrice, size |-> DetailSize,
       condition |-> DetailCondition] }

\* a mutant of OrElse: the base value wins when it is non-empty (fill-only)
OrElseFillOnly(a, b) == IF b # <<>> THEN b ELSE a

\* Python's  a or b  on strings
OrElse(a, b) == IF a # <<>> THEN a ELSE b

\* depop_scraper.deep_fetch_worker: out = {...}
ScrMergeRow(b, d, link) ==
    Row(b.brand, OrElse(d.title, b.item_name), OrElse(d.price, b.price),
        OrElse(d.size, b.size), OrElse(d.condition, b.condition), link)

\* depop_scraper_lib._deep_fetch_one: return {...}
LibMergeRow(b, d, link) ==
    Row(b.brand, OrElse(d.title, b.item_name), OrElse(d.price, b.price),
        OrElse(d.size, b.size), OrElse(d.condition, b.condition), link)

(***************************************************************************)
(* depop_scraper_lib: card extraction inside the collection loop.          *)
(***************************************************************************)
HasCurrencySymbol(t) == \E c \in CurrencySymbols : Contains(t, c)

\* for t in ps: if any(sym in t ...): price = t.strip()   (the last match stays)
RECURSIVE LibPrice(_, _)
LibPrice(ps, acc) ==
    IF ps = <<>> THEN acc
    ELSE LibPrice(Tail(ps), IF HasCurrencySymbol(Head(ps)) THEN Strip(Head(ps)) ELSE acc)

\* for t in reversed(ps): first s that is non-empty, not the price, at most 40 long
RECURSIVE LibBrand(_, _)
LibBrand(ps, price) ==
    IF ps = <<>> THEN <<>>
    ELSE LET s == Strip(ps[Len(ps)])
         IN IF s # <<>> /\ s # price /\ Len(s) <= BrandMaxLen
            THEN s
            ELSE LibBrand(SubSeq(ps, 1, Len(ps) - 1), price)

LibSlug(href) == DashesToSpaces(LastSegment(RStripSlashes(href)))

\* "if brand and slug.lower().startsWith(...)": str has no startsWith, so the
\* test raises AttributeError whenever brand is non-empty
LibBrandTestRaises(brand) == brand # <<>>

LibCardRow(a) ==
    LET price == LibPrice(a.ps, <<>>)
        brand == LibBrand(a.ps, price)
    IN Row(brand, LibSlug(a.href), IF price # <<>> THEN price ELSE NA,
           <<>>, <<>>, Origin \o a.href)

\* One pass of "for a in anchors" from position k. failAt = k: a page call of
\* card k raises.
RECURSIVE LibScan(_, _, _, _, _, _)
LibScan(anchors, k, sn, rs, failAt, cap) ==
    IF k > Len(anchors) THEN [seen |-> sn, rows |-> rs, raised |-> FALSE]
    ELSE IF k = failAt THEN [seen |-> sn, rows |-> rs, raised |-> TRUE]
    ELSE IF anchors[k].href \in sn THEN LibScan(anchors, k + 1, sn, rs, failAt, cap)
    ELSE LET a == anchors[k]
             r == LibCardRow(a)
             sn2 == sn \cup {a.href}
         IN IF LibBrandTestRaises(r.brand)
            THEN [seen |-> sn2, rows |-> rs, raised |-> TRUE]
            ELSE IF Len(rs) + 1 >= cap
                 THEN [seen |-> sn2, rows |-> Append(rs, r), raised |-> FALSE]
                 ELSE LibScan(anchors, k + 1, sn2, Append(rs, r), failAt, cap)

(***************************************************************************)
(* depop_scraper_lib.scrape_depop and _scrape_depop_async.                 *)
(***************************************************************************)
\* random.randint(500, 1000) ms, in ticks of 500 ms
LibPauseMin == 1
LibPauseMax == 2

NoWorkers == <<>>

\* no page of the user interface is running
NoOutput ==
    /\ sheet = <<>>
    /\ shown = <<>>
    /\ csv = <<>>
    /\ notices = {}

NoPage ==
    /\ ui = "none"
    /\ exc = ""
    /\ gc = "unset"
    /\ creds = <<>>
    /\ tried = <<>>
    /\ NoOutput

\* nothing has run yet
InitRun ==
    /\ deep_max = 0
    /\ concurrency = 0
    /\ rows = <<>>
    /\ round = 0
    /\ elapsed = 0
    /\ stable = 0
    /\ last_total = 0
    /\ stopped = ""
    /\ grew = 0
    /\ workers = NoWorkers
    /\ sem = 0
    /\ results_out = <<>>
    /\ result = <<>>
    /\ outcome = "running"
    /\ navAttempted = FALSE
    /\ browser = "none"
    /\ base = <<>>
    /\ details = <<>>
    /\ merged = <<>>
    /\ dom = <<>>

InitCommon ==
    /\ deep \in BOOLEAN
    /\ max_items \in 1..MaxItemsBound
    /\ max_seconds \in 2..MaxDurationBound
    /\ InitRun
    /\ NoPage

InitLib ==
    /\ InitCommon
    /\ pc = "lib_import"
    /\ warmup = 0
    /\ seen = {}

\* a mutant of LibReturnSample: the degraded paths return an empty list
LibReturnEmpty ==
    /\ result' = <<>>
    /\ outcome' = "returned"
    /\ pc' = "done"

\* return [{... sample row ...}]
LibReturnSample ==
    /\ result' = <<SampleRow>>
    /\ outcome' = "returned"
    /\ pc' = "done"

Raise ==
    /\ outcome' = "raised"
    /\ pc' = "done"

\* scrape_depop: from playwright.async_api import async_playwright
Lib_Import ==
    /\ pc = "lib_import"
    /\ \E importable \in BOOLEAN :
         IF importable
         THEN pc' = "lib_ensure" /\ UNCHANGED <<result, outcome>>
         ELSE LibReturnSample
    /\ UNCHANGED <<cfgVars, deepCfgVars, collectVars, deepVars, mergeVars, uiVars,
                   navAttempted, browser>>

\* ensure_browser("chromium"), then ensure_browser("firefox") when chromium is missing
Lib_EnsureBrowser ==
    /\ pc = "lib_ensure"
    /\ \E chromium_bin \in BOOLEAN, firefox_bin \in BOOLEAN :
         IF ~chromium_bin /\ ~firefox_bin
         THEN LibReturnSample
         ELSE pc' = "lib_launch" /\ UNCHANGED <<result, outcome>>
    /\ UNCHANGED <<cfgVars, deepCfgVars, collectVars, deepVars, mergeVars, uiVars,
                   navAttempted, browser>>

\* browser_type.launch(...) inside try / except Exception
Lib_Launch ==
    /\ pc = "lib_launch"
    /\ \E launched \in BOOLEAN :
         IF launched
         THEN pc' = "lib_goto" /\ browser' = "open" /\ UNCHANGED <<result, outcome>>
         ELSE LibReturnSample /\ UNCHANGED browser
    /\ UNCHANGED <<cfgVars, deepCfgVars, collectVars, deepVars, mergeVars, uiVars, navAttempted>>

\* new_context, new_page, page.goto(base_url): no handler around them
Lib_Goto ==
    /\ pc = "lib_goto"
    /\ navAttempted' = TRUE
    /\ \E loaded \in BOOLEAN :
         IF loaded
         THEN pc' = "lib_collect" /\ UNCHANGED outcome
         ELSE Raise
    /\ UNCHANGED <<cfgVars, deepCfgVars, collectVars, deepVars, mergeVars, uiVars, result, browser>>

\* One iteration of "while True": query the anchors, scan them, test the two
\* limits, scroll and wait. failAt = 0: nothing raises; failAt = -1:
\* query_selector_all raises; failAt = k: a page call of card k raises;
\* failAt = Len(view) + 1: the scroll evaluation raises.
Lib_Round ==
    /\ pc = "lib_collect"
    /\ round' = round + 1
    /\ \E view \in PageViews, failAt \in (-1)..(MaxAnchors + 1) :
         /\ failAt <= Len(view) + 1
         /\ IF failAt = -1
            THEN Raise /\ UNCHANGED <<seen, rows, elapsed>>
            ELSE LET s == LibScan(view, 1, seen, rows, failAt, max_items)
                 IN /\ seen' = s.seen
                    /\ rows' = s.rows
                    /\ IF s.raised
                       THEN Raise /\ UNCHANGED elapsed
                       ELSE IF Len(s.rows) >= max_items \/ elapsed > max_seconds
                            THEN pc' = "lib_collected" /\ UNCHANGED <<outcome, elapsed>>
                            ELSE IF failAt = Len(view) + 1
                                 THEN Raise /\ UNCHANGED elapsed
                                 ELSE /\ \E pause \in LibPauseMin..LibPauseMax :
                                           elapsed' = elapsed + pause
                                      /\ UNCHANGED <<pc, outcome>>
    /\ UNCHANGED <<cfgVars, deepCfgVars, stable, last_total, stopped, grew, deepVars,
                   mergeVars, uiVars, result, navAttempted, browser>>

\* by_link = {r["link"]: r for r in rows}; list(by_link.keys()): first positions
RECURSIVE DistinctLinks(_, _)
DistinctLinks(rs, acc) ==
    IF rs = <<>> THEN acc
    ELSE DistinctLinks(Tail(rs),
            IF \E i \in 1..Len(acc) : acc[i] = Head(rs).link
            THEN acc ELSE Append(acc, Head(rs).link))

\* by_link[link] of the dict comprehension: the last row with that link
LibByLink(rs, link) ==
    LET idx == {i \in 1..Len(rs) : rs[i].link = link}
    IN rs[CHOOSE i \in idx : \A j \in idx : j <= i]

\* links[:n]
Take(q, n) == SubSeq(q, 1, IF n < Len(q) THEN n ELSE Len(q))

\* links[i::c] for the 0-based i
Stride(q, i, c) ==
    LET n == IF Len(q) > i THEN (Len(q) - i + c - 1) \div c ELSE 0
    IN [j \in 1..n |-> q[i + 1 + (j - 1) * c]]

RECURSIVE NonEmptyBatches(_, _, _)
NonEmptyBatches(q, i, c) ==
    IF i >= c THEN <<>>
    ELSE LET b == Stride(q, i, c)
         IN (IF b # <<>> THEN <<b>> ELSE <<>>) \o NonEmptyBatches(q, i + 1, c)

\* batches = [links[i::concurrency] for i in range(concurrency) if links[i::concurrency]]
Batches(q, c) == NonEmptyBatches(q, 0, c)

NewWorker(batch) ==
    [batch |-> batch, idx |-> 1, pc |-> "new_page", out |-> <<>>, page |-> "none",
     holding |-> FALSE, log |-> <<>>]

\* a mutant of Semaphore: one slot more than the concurrency limit
SemaphoreOneMore(c) == c + 1

\* asyncio.Semaphore(concurrency): the free slots at creation
Semaphore(c) == c

\* "if not deep or not rows": close and return; otherwise read the deep limits,
\* build by_link, links, the semaphore and the batches, and start the workers
Lib_AfterCollect ==
    /\ pc = "lib_collected"
    /\ IF ~deep \/ rows = <<>>
       THEN /\ browser' = "closed"
            /\ result' = rows
            /\ outcome' = "returned"
            /\ pc' = "done"
            /\ UNCHANGED <<deepCfgVars, workers, sem>>
       ELSE \E dm \in 1..MaxDeepBound, c \in 1..MaxConcurrency :
            /\ deep_max' = dm
            /\ concurrency' = c
            /\ sem' = Semaphore(c)
            /\ LET links == Take(DistinctLinks(rows, <<>>), dm)
                   bs == Batches(links, c)
               IN workers' = [k \in 1..Len(bs) |-> NewWorker(bs[k])]
            /\ pc' = "lib_deep"
            /\ UNCHANGED <<result, outcome, browser>>
    /\ UNCHANGED <<cfgVars, collectVars, results_out, mergeVars, uiVars, navAttempted>>

\* worker: page_local = await ctx.new_page()
LibW_NewPage(k) ==
    /\ pc = "lib_deep"
    /\ workers[k].pc = "new_page"
    /\ workers' = [workers EXCEPT ![k].page = "open", ![k].pc = "acquire"]
    /\ UNCHANGED <<pc, cfgVars, deepCfgVars, collectVars, sem, results_out, mergeVars, uiVars,
                   result, outcome, navAttempted, browser>>

\* worker: async with sem (entry)
LibW_Acquire(k) ==
    /\ pc = "lib_deep"
    /\ workers[k].pc = "acquire"
    /\ sem > 0
    /\ sem' = sem - 1
    /\ workers' = [workers EXCEPT ![k].holding = TRUE, ![k].pc = "fetch"]
    /\ UNCHANGED <<pc, cfgVars, deepCfgVars, collectVars, results_out, mergeVars, uiVars,
                   result, outcome, navAttempted, browser>>

\* _deep_fetch_one: page.goto / scrollBy / wait_for_timeout have no handler
LibFetchRaises(navigated) == ~navigated

\* worker: row = await _deep_fetch_one(page_local, link); out.append(row);
\* leaving "async with sem" releases the slot. evaluated = FALSE is the
\* handled failure of page.evaluate(DETAIL_EXTRACT_JS): data = {}.
\* log records the links the task has visited and whether the visit raised.
LibW_Fetch(k) ==
    /\ pc = "lib_deep"
    /\ workers[k].pc = "fetch"
    /\ sem' = sem + 1
    /\ \E navigated \in BOOLEAN, evaluated \in BOOLEAN, page \in DetailPages :
         LET w == workers[k]
             link == w.batch[w.idx]
             d == IF evaluated THEN page ELSE NoDetails
         IN IF LibFetchRaises(navigated)
            THEN workers' = [workers EXCEPT
                    ![k].holding = FALSE,
                    ![k].log = Append(w.log, [link |-> link, failed |-> TRUE]),
                    ![k].pc = "close_raised"]
            ELSE workers' = [workers EXCEPT
                    ![k].holding = FALSE,
                    ![k].log = Append(w.log, [link |-> link, failed |-> FALSE]),
                    ![k].out = Append(w.out, LibMergeRow(LibByLink(rows, link), d, link)),
                    ![k].idx = w.idx + 1,
                    ![k].pc = IF w.idx + 1 > Len(w.batch) THEN "close" ELSE "acquire"]
    /\ UNCHANGED <<pc, cfgVars, deepCfgVars, collectVars, results_out, mergeVars, uiVars,
                   result, outcome, navAttempted, browser>>

\* worker: finally: await page_local.close(); then return out or re-raise
LibW_Close(k) ==
    /\ pc = "lib_deep"
    /\ workers[k].pc \in {"close", "close_raised"}
    /\ workers' = [workers EXCEPT
            ![k].page = "closed",
            ![k].pc = IF workers[k].pc = "close" THEN "returned" ELSE "raised"]
    /\ UNCHANGED <<pc, cfgVars, deepCfgVars, collectVars, sem, results_out, mergeVars, uiVars,
                   result, outcome, navAttempted, browser>>

\* final_rows: the chunks that are lists, in batch order
RECURSIVE LibFinalRows(_, _)
LibFinalRows(ws, k) ==
    IF k > Len(ws) THEN <<>>
    ELSE (IF ws[k].pc = "returned" THEN ws[k].out ELSE <<>>) \o LibFinalRows(ws, k + 1)

\* results_nested = await asyncio.gather(..., return_exceptions=True); build
\* final_rows; await browser.close(); return final_rows
Lib_Gather ==
    /\ pc = "lib_deep"
    /\ \A k \in 1..Len(workers) : workers[k].pc \in {"returned", "raised"}
    /\ result' = LibFinalRows(workers, 1)
    /\ browser' = "closed"
    /\ outcome' = "returned"
    /\ pc' = "done"
    /\ UNCHANGED <<cfgVars, deepCfgVars, collectVars, deepVars, mergeVars, uiVars, navAttempted>>

NextLib ==
    \/ Lib_Import
    \/ Lib_EnsureBrowser
    \/ Lib_Launch
    \/ Lib_Goto
    \/ Lib_Round
    \/ Lib_AfterCollect
    \/ \E k \in 1..Len(workers) : LibW_NewPage(k)
    \/ \E k \in 1..Len(workers) : LibW_Acquire(k)
    \/ \E k \in 1..Len(workers) : LibW_Fetch(k)
    \/ \E k \in 1..Len(workers) : LibW_Close(k)
    \/ Lib_Gather

SpecLib == InitLib /\ [][NextLib]_vars

(***************************************************************************)
(* depop_scraper: infinite_collect, EXTRACT_LIST_SCRIPT, deep_fetch_worker *)
(* and scrape_depop.                                                       *)
(***************************************************************************)
MAX_ROUNDS == 4
WARMUP_ROUNDS == 1
IDLE_ROUNDS == 2
PAUSE_MIN == 1
PAUSE_MAX == 2
NETWORK_IDLE_EVERY == 2
NETWORK_IDLE_TIMEOUT == 2

InitScript ==
    /\ InitCommon
    /\ pc = "scr_launch"
    /\ warmup = WARMUP_ROUNDS
    /\ seen = <<>>

\* browser = await p.chromium.launch(headless=headless): no handler
Scr_Launch ==
    /\ pc = "scr_launch"
    /\ \E launched \in BOOLEAN :
         IF launched
         THEN pc' = "scr_goto" /\ browser' = "open" /\ UNCHANGED outcome
         ELSE Raise /\ UNCHANGED browser
    /\ UNCHANGED <<cfgVars, deepCfgVars, collectVars, deepVars, mergeVars, uiVars, result,
                   navAttempted>>

\* new_context, try_load_cookies, new_page, page.goto(base_url),
\* dismiss_cookie_banner, guarded wait_for_selector
Scr_Goto ==
    /\ pc = "scr_goto"
    /\ navAttempted' = TRUE
    /\ \E loaded \in BOOLEAN :
         IF loaded
         THEN pc' = "scr_collect" /\ UNCHANGED outcome
         ELSE Raise
    /\ UNCHANGED <<cfgVars, deepCfgVars, collectVars, deepVars, mergeVars, uiVars, result, browser>>

\* AUTOCOLLECT_SCRIPT: add the unseen hrefs of the anchors to window.__depopSeen
RECURSIVE AutoCollect(_, _)
AutoCollect(anchors, sn) ==
    IF anchors = <<>> THEN sn
    ELSE AutoCollect(Tail(anchors),
            IF \E i \in 1..Len(sn) : sn[i] = Head(anchors).href
            THEN sn ELSE Append(sn, Head(anchors).href))

\* a mutant of CapReached: the loop goes on when total equals the cap
CapReachedStrict(total, cap) == total > cap

\* if total >= max_items: break
CapReached(total, cap) == total >= cap

\* a mutant of RangeExhausted: range(1, max_rounds + 2)
RangeExhaustedLate(i, m) == i >= m + 1

\* for i in range(1, int(max_rounds) + 1): no iteration follows iteration i
RangeExhausted(i, m) == i >= m

\* a mutant of StallStep: growth does not reset the counter
StallStepNoReset(i, w, total, last, st) ==
    LET s2 == IF i > w /\ total = last THEN st + 1 ELSE st
    IN [stable |-> s2, stop |-> i > w /\ s2 >= IDLE_ROUNDS]

\* a mutant of StallStep: the warmup rounds are not excused
StallStepNoWarmup(i, w, total, last, st) ==
    LET s2 == IF total = last THEN st + 1 ELSE 0
    IN [stable |-> s2, stop |-> s2 >= IDLE_ROUNDS]

\* if i > warmup: stable = stable + 1 if total == last_total else 0
\* ... if i > warmup and stable >= idle_rounds: break
StallStep(i, w, total, last, st) ==
    LET s2 == IF i > w THEN (IF total = last THEN st + 1 ELSE 0) ELSE st
    IN [stable |-> s2, stop |-> i > w /\ s2 >= IDLE_ROUNDS]

\* The part of a round after the stall test: scroll, pause, the periodic
\* guarded wait_for_load_state (idle ticks), then the time budget test and the
\* end of the for loop.
ScrScrollAndWait(i) ==
    \E scrollOk \in BOOLEAN :
        IF ~scrollOk
        THEN Raise /\ UNCHANGED <<elapsed, stopped>>
        ELSE \E pause \in PAUSE_MIN..PAUSE_MAX,
                idle \in 0..(IF i % NETWORK_IDLE_EVERY = 0 THEN NETWORK_IDLE_TIMEOUT ELSE 0) :
                /\ elapsed' = elapsed + pause + idle
                /\ UNCHANGED outcome
                /\ IF elapsed + pause + idle > max_seconds
                   THEN stopped' = "time" /\ pc' = "scr_extract"
                   ELSE IF RangeExhausted(i, MAX_ROUNDS)
                        THEN stopped' = "rounds" /\ pc' = "scr_extract"
                        ELSE UNCHANGED <<stopped, pc>>

\* One iteration of the for loop of infinite_collect. evalOk: the
\* AUTOCOLLECT evaluation returns.
Scr_Round ==
    /\ pc = "scr_collect"
    /\ ~RangeExhausted(round, MAX_ROUNDS)
    /\ round' = round + 1
    /\ \E evalOk \in BOOLEAN :
         IF ~evalOk
         THEN Raise /\ UNCHANGED <<seen, stable, last_total, elapsed, stopped, grew>>
         ELSE \E view \in PageViews :
              LET i == round + 1
                  sn == AutoCollect(view, seen)
                  total == Len(sn)
                  ss == StallStep(i, warmup, total, last_total, stable)
              IN /\ seen' = sn
                 /\ grew' = IF total # Len(seen) THEN i ELSE grew
                 /\ IF CapReached(total, max_items)
                    THEN /\ stopped' = "cap"
                         /\ pc' = "scr_extract"
                         /\ UNCHANGED <<stable, last_total, elapsed, outcome>>
                    ELSE /\ stable' = ss.stable
                         /\ last_total' = total
                         /\ IF ss.stop
                            THEN /\ stopped' = "stall"
                                 /\ pc' = "scr_extract"
                                 /\ UNCHANGED <<elapsed, outcome>>
                            ELSE ScrScrollAndWait(i)
    /\ UNCHANGED <<cfgVars, deepCfgVars, rows, deepVars, mergeVars, uiVars, result,
                   navAttempted, browser>>

\* currencyRe = /[$£€]\s?\d|\d+(?:[.,]\d{2})/  as  currencyRe.test(t)
CurrencyTest(t) ==
    \/ \E i \in 1..Len(t) :
         /\ t[i] \in CurrencySymbols
         /\ \/ i + 1 <= Len(t) /\ t[i + 1] \in Digits
            \/ i + 2 <= Len(t) /\ t[i + 1] \in Whitespace /\ t[i + 2] \in Digits
    \/ \E i \in 1..Len(t) :
         /\ i + 3 <= Len(t)
         /\ t[i] \in Digits
         /\ t[i + 1] \in {".", ","}
         /\ t[i + 2] \in Digits
         /\ t[i + 3] \in Digits

\* document.querySelector(`a[href="${href}"]`) || document.querySelector(`a[href^="${href}"]`)
\* 0 when neither selector matches
FindAnchor(view, href) ==
    LET exact == {i \in 1..Len(view) : view[i].href = href}
        prefixed == {i \in 1..Len(view) : StartsWith(view[i].href, href)}
        first(S) == CHOOSE i \in S : \A j \in S : i <= j
    IN IF exact # {} THEN first(exact)
       ELSE IF prefixed # {} THEN first(prefixed)
       ELSE 0

\* pTags.find(p => currencyRe.test(p.textContent)): its trimmed text, else "N/A"
RECURSIVE ScrPrice(_)
ScrPrice(ps) ==
    IF ps = <<>> THEN NA
    ELSE IF CurrencyTest(Head(ps)) THEN Strip(Head(ps)) ELSE ScrPrice(Tail(ps))

\* the last trimmed non-empty text that is no price and at most 40 long
RECURSIVE ScrBrand(_)
ScrBrand(ps) ==
    IF ps = <<>> THEN <<>>
    ELSE LET t == Strip(ps[Len(ps)])
         IN IF t # <<>> /\ ~CurrencyTest(t) /\ Len(t) <= BrandMaxLen
            THEN t
            ELSE ScrBrand(SubSeq(ps, 1, Len(ps) - 1))

ScrSlug(href) == DashesToSpaces(LastSegment(DropOneSlash(href)))

\* itemName: the slug, without the brand when the brand is a prefix of it
ScrItemName(slug, brand) ==
    IF brand # <<>> /\ StartsWith(Lower(slug), Lower(brand))
    THEN Strip(SubSeq(slug, Len(brand) + 1, Len(slug)))
    ELSE slug

\* the row EXTRACT_LIST_SCRIPT pushes for one href of window.__depopSeen
ScrCardRow(href, view) ==
    LET k == FindAnchor(view, href)
        ps == IF k = 0 THEN <<>> ELSE view[k].ps
        price == IF k = 0 THEN NA ELSE ScrPrice(ps)
        brand == IF k = 0 THEN <<>> ELSE ScrBrand(ps)
    IN Row(brand, ScrItemName(ScrSlug(href), brand), price, <<>>, <<>>, Origin \o href)

\* list_rows = await page.evaluate(EXTRACT_LIST_SCRIPT). infinite_collect has
\* returned: its locals i, stable, last_total and start no longer exist (stopped
\* keeps why it returned).
Scr_Extract ==
    /\ pc = "scr_extract"
    /\ round' = 0
    /\ elapsed' = 0
    /\ stable' = 0
    /\ last_total' = 0
    /\ grew' = 0
    /\ \E evalOk \in BOOLEAN :
         IF evalOk
         THEN /\ \E view \in PageViews :
                   rows' = [i \in 1..Len(seen) |-> ScrCardRow(seen[i], view)]
              /\ pc' = "scr_extracted"
              /\ UNCHANGED outcome
         ELSE Raise /\ UNCHANGED rows
    /\ UNCHANGED <<cfgVars, deepCfgVars, seen, stopped,
                   deepVars, mergeVars, uiVars, result, navAttempted, browser>>

\* by_link[link]: the first row with that link ("if r["link"] not in by_link")
ScrByLink(rs, link) ==
    LET idx == {i \in 1..Len(rs) : rs[i].link = link}
    IN rs[CHOOSE i \in idx : \A j \in idx : i <= j]

\* batches = [links[i::c] for i in range(c)]; tasks for the non-empty ones
ScrBatches(q, c) == NonEmptyBatches(q, 0, c)

\* "if deep and list_rows": dedupe, truncate to DEEP_FETCH_MAX, start the
\* workers; else all_rows = list_rows, close the browser and return
Scr_AfterExtract ==
    /\ pc = "scr_extracted"
    /\ IF deep /\ rows # <<>>
       THEN \E dm \in 1..MaxDeepBound, c \in 1..MaxConcurrency :
            /\ deep_max' = dm
            /\ concurrency' = c
            /\ sem' = Semaphore(c)
            /\ LET links == Take(DistinctLinks(rows, <<>>), dm)
                   bs == ScrBatches(links, c)
               IN workers' = [k \in 1..Len(bs) |-> NewWorker(bs[k])]
            /\ pc' = "scr_deep"
            /\ UNCHANGED <<result, outcome, browser>>
       ELSE /\ browser' = "closed"
            /\ result' = rows
            /\ outcome' = "returned"
            /\ pc' = "done"
            /\ UNCHANGED <<deepCfgVars, workers, sem>>
    /\ UNCHANGED <<cfgVars, collectVars, results_out, mergeVars, uiVars, navAttempted>>

\* deep_fetch_worker: page = await context.new_page()
ScrW_NewPage(k) ==
    /\ pc = "scr_deep"
    /\ workers[k].pc = "new_page"
    /\ workers' = [workers EXCEPT ![k].page = "open", ![k].pc = "acquire"]
    /\ UNCHANGED <<pc, cfgVars, deepCfgVars, collectVars, sem, results_out, mergeVars, uiVars,
                   result, outcome, navAttempted, browser>>

\* deep_fetch_worker: async with sem (entry)
ScrW_Acquire(k) ==
    /\ pc = "scr_deep"
    /\ workers[k].pc = "acquire"
    /\ sem > 0
    /\ sem' = sem - 1
    /\ workers' = [workers EXCEPT ![k].holding = TRUE, ![k].pc = "visit"]
    /\ UNCHANGED <<pc, cfgVars, deepCfgVars, collectVars, results_out, mergeVars, uiVars,
                   result, outcome, navAttempted, browser>>

\* the mutant of ScrVisitDetails: a failed visit yields no row
ScrVisitDetailsDropFailed(visited, d) == IF visited THEN <<d>> ELSE <<>>

\* try: goto ... details = evaluate(DETAIL_EXTRACT_JS); except Exception: details = {}
\* the details the merge gets, as a list of one
ScrVisitDetails(visited, d) == IF visited THEN <<d>> ELSE <<NoDetails>>

\* deep_fetch_worker: the guarded visit of one link, the merge onto the base
\* row, results_out.append(out); leaving "async with sem" releases the slot.
\* log records the links the task has handled and whether the visit raised.
ScrW_Visit(k) ==
    /\ pc = "scr_deep"
    /\ workers[k].pc = "visit"
    /\ sem' = sem + 1
    /\ \E visited \in BOOLEAN, d \in DetailPages :
         LET w == workers[k]
             link == w.batch[w.idx]
             got == ScrVisitDetails(visited, d)
             outs == [j \in 1..Len(got) |-> ScrMergeRow(ScrByLink(rows, link), got[j], link)]
         IN /\ results_out' = results_out \o outs
            /\ workers' = [workers EXCEPT
                    ![k].holding = FALSE,
                    ![k].log = Append(w.log, [link |-> link, failed |-> ~visited]),
                    ![k].idx = w.idx + 1,
                    ![k].pc = IF w.idx + 1 > Len(w.batch) THEN "close" ELSE "acquire"]
    /\ UNCHANGED <<pc, cfgVars, deepCfgVars, collectVars, mergeVars, uiVars,
                   result, outcome, navAttempted, browser>>

\* deep_fetch_worker: finally: await page.close()
ScrW_Close(k) ==
    /\ pc = "scr_deep"
    /\ workers[k].pc = "close"
    /\ workers' = [workers EXCEPT ![k].page = "closed", ![k].pc = "returned"]
    /\ UNCHANGED <<pc, cfgVars, deepCfgVars, collectVars, sem, results_out, mergeVars, uiVars,
                   result, outcome, navAttempted, browser>>

\* await asyncio.gather(*tasks, return_exceptions=True); all_rows = results_out;
\* await browser.close(); return all_rows
Scr_Gather ==
    /\ pc = "scr_deep"
    /\ \A k \in 1..Len(workers) : workers[k].pc = "returned"
    /\ result' = results_out
    /\ browser' = "closed"
    /\ outcome' = "returned"
    /\ pc' = "done"
    /\ UNCHANGED <<cfgVars, deepCfgVars, collectVars, deepVars, mergeVars, uiVars, navAttempted>>

NextScript ==
    \/ Scr_Launch
    \/ Scr_Goto
    \/ Scr_Round
    \/ Scr_Extract
    \/ Scr_AfterExtract
    \/ \E k \in 1..Len(workers) : ScrW_NewPage(k)
    \/ \E k \in 1..Len(workers) : ScrW_Acquire(k)
    \/ \E k \in 1..Len(workers) : ScrW_Visit(k)
    \/ \E k \in 1..Len(workers) : ScrW_Close(k)
    \/ Scr_Gather

SpecScript == InitScript /\ [][NextScript]_vars

(***************************************************************************)
(* infinite_collect as a function of its parameters and of the page.       *)
(***************************************************************************)
MaxWarmup == 2           \* warmup is drawn from 0..MaxWarmup
MaxCollectItems == 4     \* max_items is drawn from 1..MaxCollectItems
MaxCollectDuration == 5  \* max_duration_s is drawn from 2..MaxCollectDuration

InitCollect ==
    /\ InitRun
    /\ NoPage
    /\ pc = "scr_collect"
    /\ deep = FALSE
    /\ max_items \in 1..MaxCollectItems
    /\ max_seconds \in 2..MaxCollectDuration
    /\ warmup \in 0..MaxWarmup
    /\ seen = <<>>

\* infinite_collect returns to scrape_depop
Col_Return ==
    /\ pc = "scr_extract"
    /\ pc' = "collect_returned"
    /\ UNCHANGED <<cfgVars, deepCfgVars, collectVars, deepVars, mergeVars, uiVars, result,
                   outcome, navAttempted, browser>>

NextCollect ==
    \/ Scr_Round
    \/ Col_Return

SpecCollect == InitCollect /\ [][NextCollect]_vars

(***************************************************************************)
(* The deep-fetch pass of both pipelines, from the rows of the list page.  *)
(***************************************************************************)
MaxDeepRows == 3         \* rows the list page handed to the deep-fetch pass

\* the distinct hrefs behind the rows, in discovery order
DeepHrefLists ==
    { hs \in SeqsUpTo(Hrefs, MaxDeepRows) :
        /\ hs # <<>>
        /\ \A i \in 1..Len(hs), j \in 1..Len(hs) : i # j => hs[i] # hs[j] }

\* The collection loop has ended at the item cap with one row per href (cards
\* without <p> texts) and the deep flag is set.
InitDeep ==
    /\ NoPage
    /\ deep = TRUE
    /\ max_seconds = 2
    /\ deep_max = 0
    /\ concurrency = 0
    /\ elapsed = 0
    /\ stable = 0
    /\ last_total = 0
    /\ grew = 0
    /\ workers = NoWorkers
    /\ sem = 0
    /\ results_out = <<>>
    /\ result = <<>>
    /\ outcome = "running"
    /\ navAttempted = TRUE
    /\ browser = "open"
    /\ base = <<>>
    /\ details = <<>>
    /\ merged = <<>>
    /\ dom = <<>>
    /\ \E hs \in DeepHrefLists, lib \in BOOLEAN :
         /\ max_items = Len(hs)
         /\ IF lib
            THEN /\ pc = "lib_collected"
                 /\ warmup = 0
                 /\ round = 1
                 /\ stopped = ""
                 /\ seen = {hs[i] : i \in 1..Len(hs)}
                 /\ rows = [i \in 1..Len(hs) |-> LibCardRow([href |-> hs[i], ps |-> <<>>])]
            ELSE /\ pc = "scr_extracted"
                 /\ warmup = WARMUP_ROUNDS
                 /\ round = 0
                 /\ stopped = "cap"
                 /\ seen = hs
                 /\ rows = [i \in 1..Len(hs) |-> ScrCardRow(hs[i], <<>>)]

NextDeep ==
    \/ Lib_AfterCollect
    \/ \E k \in 1..Len(workers) : LibW_NewPage(k)
    \/ \E k \in 1..Len(workers) : LibW_Acquire(k)
    \/ \E k \in 1..Len(workers) : LibW_Fetch(k)
    \/ \E k \in 1..Len(workers) : LibW_Close(k)
    \/ Lib_Gather
    \/ Scr_AfterExtract
    \/ \E k \in 1..Len(workers) : ScrW_NewPage(k)
    \/ \E k \in 1..Len(workers) : ScrW_Acquire(k)
    \/ \E k \in 1..Len(workers) : ScrW_Visit(k)
    \/ \E k \in 1..Len(workers) : ScrW_Close(k)
    \/ Scr_Gather

SpecDeep == InitDeep /\ [][NextDeep]_vars

(***************************************************************************)
(* The merge as a function of its two inputs.                              *)
(***************************************************************************)
BaseRows ==
    { Row(b, n, p, z, c, Origin \o HrefB) :
        b \in {<<>>, BrandText},
        n \in {<<>>, <<"b">>},
        p \in {<<>>, NA, PriceText},
        z \in {<<>>, <<"S">>},
        c \in {<<>>, <<"N","e","w">>} }

InitMerge ==
    /\ pc = "merge"
    /\ base \in BaseRows
    /\ details \in AllDetails
    /\ merged = <<>>
    /\ dom = <<>>
    /\ deep = TRUE
    /\ max_items = 1
    /\ max_seconds = 2
    /\ warmup = 0
    /\ grew = 0
    /\ deep_max = 1
    /\ concurrency = 1
    /\ seen = <<>>
    /\ rows = <<>>
    /\ round = 0
    /\ elapsed = 0
    /\ stable = 0
    /\ last_total = 0
    /\ stopped = ""
    /\ workers = NoWorkers
    /\ sem = 0
    /\ results_out = <<>>
    /\ result = <<>>
    /\ outcome = "running"
    /\ navAttempted = FALSE
    /\ browser = "none"
    /\ NoPage

\* deep_fetch_worker: base = ...; out = {...}
Merge_Script ==
    /\ pc = "merge"
    /\ merged' = ScrMergeRow(base, details, base.link)
    /\ pc' = "merged_script"
    /\ UNCHANGED <<cfgVars, deepCfgVars, collectVars, deepVars, base, details, dom, uiVars,
                   result, outcome, navAttempted, browser>>

\* _deep_fetch_one: base = by_link[link]; return {...}
Merge_Lib ==
    /\ pc = "merge"
    /\ merged' = LibMergeRow(base, details, base.link)
    /\ pc' = "merged_lib"
    /\ UNCHANGED <<cfgVars, deepCfgVars, collectVars, deepVars, base, details, dom, uiVars,
                   result, outcome, navAttempted, browser>>

NextMerge ==
    \/ Merge_Script
    \/ Merge_Lib

SpecMerge == InitMerge /\ [][NextMerge]_vars

(***************************************************************************)
(* DETAIL_EXTRACT_JS of both pipelines as a function of the detail page.   *)
(***************************************************************************)
Http == <<"h","t","t","p">>
NewCondition == <<"N","e","w","C","o","n","d","i","t","i","o","n">>
UsedCondition == <<"U","s","e","d","C","o","n","d","i","t","i","o","n">>
RefurbishedCondition ==
    <<"R","e","f","u","r","b","i","s","h","e","d","C","o","n","d","i","t","i","o","n">>
DamagedCondition == <<"D","a","m","a","g","e","d","C","o","n","d","i","t","i","o","n">>
SchemaOrg == <<"h","t","t","p","s",":","/","/","s","c","h","e","m","a",".","o","r","g","/">>
BrandNew == <<"B","r","a","n","d"," ","N","e","w">>
Used == <<"U","s","e","d">>
Refurbished == <<"R","e","f","u","r","b","i","s","h","e","d">>
Damaged == <<"D","a","m","a","g","e","d">>
GoodConditionPhrase == <<"G","o","o","d"," ","c","o","n","d","i","t","i","o","n">>
\* the text of a pressed button that is no size chip (17 characters)
LongChipText == <<"A","d","d"," ","t","o"," ","b","a","g"," ","b","u","t","t","o","n">>
ChipMaxLen == 16

\* #__NEXT_DATA__ is missing or does not parse
NoNextData == [present |-> FALSE, size |-> <<>>, condition |-> <<>>]

\* the parsed #__NEXT_DATA__: what the key search finds for size and condition
NextDatas ==
    {NoNextData} \cup
    [present : {TRUE}, size : {<<>>, <<"L">>}, condition : {<<>>, UsedCondition}]

\* What a detail page offers to each layer: [data-testid] elements, a pressed
\* button, a dt/dd pair, the itemCondition <meta content>, #__NEXT_DATA__,
\* the ld+json blocks, and the matches of the two regexes on the body text.
DetailDoms ==
    [testidSize : {<<>>, DetailSize}, chipSize : {<<>>, LongChipText},
     dtSize : {<<>>, <<"S">>}, nextData : NextDatas, ldSize : {<<>>, <<"X","S">>},
     textSize : {<<>>, <<"X","L">>},
     testidCond : {<<>>, Used}, dtCond : {<<>>, <<"N","e","w">>},
     metaCond : {<<>>, SchemaOrg \o NewCondition},
     ldCond : {<<>>, RefurbishedCondition}, textCond : {<<>>, GoodConditionPhrase}]

\* prettySchemaCondition(val)
PrettySchemaCondition(val) ==
    IF val = <<>> THEN <<>>
    ELSE LET t == Strip(val)
             slug == IF StartsWith(t, Http) THEN LastSegment(t) ELSE t
         IN CASE slug = NewCondition -> BrandNew
              [] slug = UsedCondition -> Used
              [] slug = RefurbishedCondition -> Refurbished
              [] slug = DamagedCondition -> Damaged
              [] OTHER -> t

\* depop_scraper: getSizeDOM(), then #__NEXT_DATA__, ld+json, body text
ScrDetailSize(p) ==
    LET s0 == IF p.testidSize # <<>> THEN p.testidSize
              ELSE IF p.chipSize # <<>> /\ Len(p.chipSize) <= ChipMaxLen THEN p.chipSize
              ELSE p.dtSize
        s1 == IF s0 = <<>> /\ p.nextData.present THEN p.nextData.size ELSE s0
        s2 == IF s1 = <<>> THEN p.ldSize ELSE s1
        s3 == IF s2 = <<>> THEN p.textSize ELSE s2
    IN Strip(s3)

\* if (!condition || /^used$/i.test(condition)) condition = granular
GranularReplaces(condition) == condition = <<>> \/ Lower(condition) = Lower(Used)

\* depop_scraper: getConditionDOM(), the itemCondition meta, #__NEXT_DATA__,
\* ld+json, then the granular phrase of the body text
ScrDetailCondition(p) ==
    LET c0 == IF p.testidCond # <<>> THEN p.testidCond ELSE p.dtCond
        c1 == IF c0 = <<>> /\ p.metaCond # <<>> THEN PrettySchemaCondition(p.metaCond) ELSE c0
        c2 == IF c1 = <<>> /\ p.nextData.present /\ p.nextData.condition # <<>>
              THEN PrettySchemaCondition(p.nextData.condition) ELSE c1
        c3 == IF c2 = <<>> /\ p.ldCond # <<>> THEN PrettySchemaCondition(p.ldCond) ELSE c2
        c4 == IF p.textCond # <<>> /\ GranularReplaces(c3) THEN p.textCond ELSE c3
    IN Strip(c4)

\* depop_scraper.DETAIL_EXTRACT_JS
ScrDetailExtract(p) ==
    [title |-> DetailTitle, price |-> DetailPrice,
     size |-> ScrDetailSize(p), condition |-> ScrDetailCondition(p)]

\* !size || size.length > 16
LibSizeMissing(z) == z = <<>> \/ Len(z) > ChipMaxLen

\* depop_scraper_lib: 1) DOM guesses, 2) dt/dd, 3) #__NEXT_DATA__ (its result
\* is assigned also when empty) and ld+json, 4) body text
LibDetailSize(p) ==
    LET s0 == IF p.testidSize # <<>> THEN p.testidSize ELSE p.chipSize
        s1 == IF LibSizeMissing(s0) /\ p.dtSize # <<>> THEN p.dtSize ELSE s0
        s2 == IF LibSizeMissing(s1) /\ p.nextData.present THEN p.nextData.size ELSE s1
        s3 == IF LibSizeMissing(s2) /\ p.ldSize # <<>> THEN p.ldSize ELSE s2
        s4 == IF LibSizeMissing(s3) /\ p.textSize # <<>> THEN p.textSize ELSE s3
    IN Strip(s4)

\* depop_scraper_lib: the same four steps for the condition (the textContent
\* of the itemCondition <meta> is empty), then "if (granular) condition = granular"
LibDetailCondition(p) ==
    LET c0 == p.testidCond
        c1 == IF c0 = <<>> /\ p.dtCond # <<>> THEN p.dtCond ELSE c0
        c2 == IF c1 = <<>> /\ p.nextData.present
              THEN OrElse(PrettySchemaCondition(p.nextData.condition), c1) ELSE c1
        c3 == IF c2 = <<>> /\ p.ldCond # <<>> THEN PrettySchemaCondition(p.ldCond) ELSE c2
        c4 == IF p.textCond # <<>> THEN p.textCond ELSE c3
    IN Strip(c4)

\* depop_scraper_lib.DETAIL_EXTRACT_JS
LibDetailExtract(p) ==
    [title |-> DetailTitle, price |-> DetailPrice,
     size |-> LibDetailSize(p), condition |-> LibDetailCondition(p)]

InitDetail ==
    /\ NoPage
    /\ pc = "detail"
    /\ dom \in DetailDoms
    /\ deep = TRUE
    /\ max_items = 1
    /\ max_seconds = 2
    /\ warmup = 0
    /\ deep_max = 1
    /\ concurrency = 1
    /\ seen = <<>>
    /\ rows = <<>>
    /\ round = 0
    /\ elapsed = 0
    /\ stable = 0
    /\ last_total = 0
    /\ stopped = ""
    /\ grew = 0
    /\ workers = NoWorkers
    /\ sem = 0
    /\ results_out = <<>>
    /\ result = <<>>
    /\ outcome = "running"
    /\ navAttempted = FALSE
    /\ browser = "none"
    /\ base = <<>>
    /\ details = <<>>
    /\ merged = <<>>

\* deep_fetch_worker: details = await page.evaluate(DETAIL_EXTRACT_JS)
Detail_Script ==
    /\ pc = "detail"
    /\ details' = ScrDetailExtract(dom)
    /\ pc' = "detail_script"
    /\ UNCHANGED <<cfgVars, deepCfgVars, collectVars, deepVars, base, merged, dom, uiVars,
                   result, outcome, navAttempted, browser>>

\* _deep_fetch_one: data = await page.evaluate(DETAIL_EXTRACT_JS)
Detail_Lib ==
    /\ pc = "detail"
    /\ details' = LibDetailExtract(dom)
    /\ pc' = "detail_lib"
    /\ UNCHANGED <<cfgVars, deepCfgVars, collectVars, deepVars, base, merged, dom, uiVars,
                   result, outcome, navAttempted, browser>>

NextDetail ==
    \/ Detail_Script
    \/ Detail_Lib

SpecDetail == InitDetail /\ [][NextDetail]_vars

(***************************************************************************)
(* creds_loader.authorize_gspread.                                         *)
(***************************************************************************)
SourceStates == {"absent", "invalid", "valid"}

\* the argument prefer_local and what the function reads: STREAMLIT_RUNTIME,
\* whether streamlit was importable, the two secrets and credentials.json
CredEnvs ==
    [prefer_local : BOOLEAN, cloud : BOOLEAN, st : BOOLEAN,
     table : SourceStates, json : SourceStates, local : SourceStates]

\* if IS_CLOUD: prefer_local = False; order = [...]
CredOrder(env) ==
    IF env.prefer_local /\ ~env.cloud
    THEN <<"local", "table", "json">>
    ELSE <<"table", "json", "local">>

\* "x" in order
InOrder(x, order) == \E i \in 1..Len(order) : order[i] = x

\* has_table / has_json: only read when streamlit is there
HasSecret(env, x) == env.st /\ env[x] # "absent"

\* _badge(...) : creds_loader defines no _badge, the call raises NameError
BadgeRaises == TRUE

\* One of the three numbered blocks: when the source is in order and present,
\* try: build the client, call _badge, return client; except Exception: warn.
CredsTry(x, present, next) ==
    IF InOrder(x, CredOrder(creds)) /\ present
    THEN /\ tried' = Append(tried, x)
         /\ IF creds[x] = "valid" /\ ~BadgeRaises
            THEN gc' = x /\ outcome' = "returned" /\ pc' = "creds_done"
            ELSE pc' = next /\ UNCHANGED <<gc, outcome>>
    ELSE pc' = next /\ UNCHANGED <<tried, gc, outcome>>

Creds_Table ==
    /\ pc = "creds_table"
    /\ CredsTry("table", HasSecret(creds, "table"), "creds_json")
    /\ UNCHANGED <<cfgVars, deepCfgVars, collectVars, deepVars, mergeVars, result,
                   navAttempted, browser, ui, exc, creds, sheet, shown, csv, notices>>

Creds_Json ==
    /\ pc = "creds_json"
    /\ CredsTry("json", HasSecret(creds, "json"), "creds_local")
    /\ UNCHANGED <<cfgVars, deepCfgVars, collectVars, deepVars, mergeVars, result,
                   navAttempted, browser, ui, exc, creds, sheet, shown, csv, notices>>

Creds_Local ==
    /\ pc = "creds_local"
    /\ CredsTry("local", creds.local # "absent", "creds_none")
    /\ UNCHANGED <<cfgVars, deepCfgVars, collectVars, deepVars, mergeVars, result,
                   navAttempted, browser, ui, exc, creds, sheet, shown, csv, notices>>

\* _badge(False, "none", ...) raises NameError before
\* raise RuntimeError("No Google credentials found. ...") is reached
NoSourceRaises == IF BadgeRaises THEN "NameError" ELSE "RuntimeError"

\* the end of authorize_gspread: no source returned a client
Creds_None ==
    /\ pc = "creds_none"
    /\ outcome' = "raised"
    /\ exc' = NoSourceRaises
    /\ pc' = "creds_done"
    /\ UNCHANGED <<cfgVars, deepCfgVars, collectVars, deepVars, mergeVars, result,
                   navAttempted, browser, ui, gc, creds, tried, sheet, shown, csv, notices>>

InitCreds ==
    /\ InitRun
    /\ pc = "creds_table"
    /\ deep = FALSE
    /\ max_items = 1
    /\ max_seconds = 2
    /\ warmup = 0
    /\ seen = <<>>
    /\ ui = "none"
    /\ exc = ""
    /\ gc = "unset"
    /\ creds \in CredEnvs
    /\ tried = <<>>
    /\ NoOutput

NextCreds ==
    \/ Creds_Table
    \/ Creds_Json
    \/ Creds_Local
    \/ Creds_None

SpecCreds == InitCreds /\ [][NextCreds]_vars

(***************************************************************************)
(* The pages: app.py (auth block, run scrape block, save and render block) *)
(* and the run block of depop_scraper.py.                                  *)
(***************************************************************************)
MaxUiRows == 2           \* rows a scrape hands to the page

BATCH == 300
DataframeHead == 200

\* rows a scrape can hand to the page
UiRows ==
    { Row(<<>>, <<"b">>, NA, <<>>, <<>>, Origin \o HrefB),
      Row(BrandText, <<"c">>, PriceText, DetailSize, DetailCondition, Origin \o HrefC) }

UiRowLists == SeqsUpTo(UiRows, MaxUiRows)

\* [r.get("platform", ...), r.get("brand", ""), ..., r.get("link", "")]
PayloadRow(r) == <<r.platform, r.brand, r.item_name, r.price, r.size, r.condition, r.link>>

Payload(rs) == [i \in 1..Len(rs) |-> PayloadRow(rs[i])]

\* range(0, len(payload), BATCH)
NBatches(n) == (n + BATCH - 1) \div BATCH

InitUi ==
    /\ InitRun
    /\ ui \in {"app", "script"}
    /\ pc = IF ui = "app" THEN "app_auth" ELSE "run_scrape"
    /\ deep = FALSE
    /\ max_items = 1
    /\ max_seconds = 2
    /\ warmup = 0
    /\ seen = <<>>
    /\ exc = ""
    /\ gc = "unset"
    /\ creds = <<>>
    /\ tried = <<>>
    /\ NoOutput

\* app.py: gc = None; if authorize_gspread: try: gc = authorize_gspread(prefer_local=...)
App_Auth ==
    /\ pc = "app_auth"
    /\ \E imported \in BOOLEAN :
         IF imported
         THEN /\ creds' \in CredEnvs
              /\ pc' = "creds_table"
              /\ UNCHANGED gc
         ELSE /\ gc' = "none"
              /\ pc' = "app_scrape"
              /\ UNCHANGED creds
    /\ UNCHANGED <<cfgVars, deepCfgVars, collectVars, deepVars, mergeVars, result, outcome,
                   navAttempted, browser, ui, exc, tried, sheet, shown, csv, notices>>

\* a mutant of AuthFailed: no handler around authorize_gspread
AuthFailedPropagates ==
    /\ gc' = "none"
    /\ outcome' = "raised"
    /\ pc' = "ui_done"
    /\ UNCHANGED notices

\* except Exception as e: ... st.info("Sheets auth not ready (UI continues)")
AuthFailed ==
    /\ gc' = "none"
    /\ notices' = notices \cup {"auth_info"}
    /\ outcome' = "running"
    /\ pc' = "app_scrape"

\* app.py: authorize_gspread has returned or raised inside the try
App_AuthResult ==
    /\ pc = "creds_done"
    /\ ui = "app"
    /\ IF outcome = "raised"
       THEN AuthFailed
       ELSE /\ outcome' = "running"
            /\ pc' = "app_scrape"
            /\ UNCHANGED <<gc, notices>>
    /\ UNCHANGED <<cfgVars, deepCfgVars, collectVars, deepVars, mergeVars, result,
                   navAttempted, browser, ui, exc, creds, tried, sheet, shown, csv>>

\* app.py: rows = []; the sample row when the scraper module is missing, else
\* try: rows = scrape_depop(...) except Exception: log
App_Scrape ==
    /\ pc = "app_scrape"
    /\ rows' \in UiRowLists \cup { <<SampleRow>> }
    /\ pc' = "app_save"
    /\ UNCHANGED <<cfgVars, deepCfgVars, seen, round, elapsed, stable, last_total, stopped,
                   grew, deepVars, mergeVars, uiVars, result, outcome, navAttempted, browser>>

\* the body of the try of the save step: open or create the sheet and the tab,
\* write the headers, append the payload in batches. opened = FALSE: a call
\* before the appends raises; done: the batches appended before one raises.
SheetWrite(nb, batch) ==
    \E opened \in BOOLEAN, done \in 0..nb :
        LET n == IF done * batch < Len(rows) THEN done * batch ELSE Len(rows)
        IN IF ~opened
           THEN /\ notices' = notices \cup {"save_warning"}
                /\ UNCHANGED sheet
           ELSE /\ sheet' = sheet \o SubSeq(Payload(rows), 1, n)
                /\ notices' = notices \cup
                      {IF done = nb THEN "saved" ELSE "save_warning"}

\* app.py: if gc and rows: try: ... except Exception: st.warning(...)
App_Save ==
    /\ pc = "app_save"
    /\ IF gc \notin {"none", "unset"} /\ rows # <<>>
       THEN SheetWrite(NBatches(Len(rows)), BATCH)
       ELSE UNCHANGED <<sheet, notices>>
    /\ pc' = "app_render"
    /\ UNCHANGED <<cfgVars, deepCfgVars, collectVars, deepVars, mergeVars, result, outcome,
                   navAttempted, browser, ui, exc, gc, creds, tried, shown, csv>>

\* app.py: render_results(rows, SHEET_NAME): the table and the CSV download
App_Render ==
    /\ pc = "app_render"
    /\ shown' = rows
    /\ csv' = Payload(rows)
    /\ outcome' = "returned"
    /\ pc' = "ui_done"
    /\ UNCHANGED <<cfgVars, deepCfgVars, collectVars, deepVars, mergeVars, result,
                   navAttempted, browser, ui, exc, gc, creds, tried, sheet, notices>>

\* depop_scraper.py: query.strip() empty: warning and st.stop(); else
\* rows = asyncio.run(scrape_depop(...)), with no handler
Run_Scrape ==
    /\ pc = "run_scrape"
    /\ \E queryEmpty \in BOOLEAN, scraped \in BOOLEAN :
         IF queryEmpty
         THEN /\ notices' = notices \cup {"enter_term"}
              /\ outcome' = "returned"
              /\ pc' = "ui_done"
              /\ UNCHANGED rows
         ELSE IF scraped
              THEN /\ rows' \in UiRowLists
                   /\ pc' = "run_save"
                   /\ UNCHANGED <<outcome, notices>>
              ELSE Raise /\ UNCHANGED <<rows, notices>>
    /\ UNCHANGED <<cfgVars, deepCfgVars, seen, round, elapsed, stable, last_total, stopped,
                   grew, deepVars, mergeVars, result, navAttempted, browser,
                   ui, exc, gc, creds, tried, sheet, shown, csv>>

\* open_worksheet (the second definition, the one in force) starts with
\* creds = load_google_credentials(): no such function exists, NameError
LoadCredentialsRaises == TRUE

\* depop_scraper.py: try: ws = open_worksheet(...); save_to_google_sheets(ws, rows)
\* except Exception: st.warning(...)
Run_Save ==
    /\ pc = "run_save"
    /\ IF LoadCredentialsRaises
       THEN notices' = notices \cup {"save_warning"} /\ UNCHANGED sheet
       ELSE SheetWrite(IF rows # <<>> THEN 1 ELSE 0, Len(rows))
    /\ pc' = "run_render"
    /\ UNCHANGED <<cfgVars, deepCfgVars, collectVars, deepVars, mergeVars, result, outcome,
                   navAttempted, browser, ui, exc, gc, creds, tried, shown, csv>>

\* depop_scraper.py: if rows: st.dataframe(rows[:200]) and the CSV download
Run_Render ==
    /\ pc = "run_render"
    /\ shown' = Take(rows, DataframeHead)
    /\ csv' = Payload(rows)
    /\ outcome' = "returned"
    /\ pc' = "ui_done"
    /\ UNCHANGED <<cfgVars, deepCfgVars, collectVars, deepVars, mergeVars, result,
                   navAttempted, browser, ui, exc, gc, creds, tried, sheet, notices>>

NextUi ==
    \/ App_Auth
    \/ Creds_Table
    \/ Creds_Json
    \/ Creds_Local
    \/ Creds_None
    \/ App_AuthResult
    \/ App_Scrape
    \/ App_Save
    \/ App_Render
    \/ Run_Scrape
    \/ Run_Save
    \/ Run_Render

SpecUi == InitUi /\ [][NextUi]_vars

(***************************************************************************)
(* Properties.                                                             *)
(***************************************************************************)
Returned == pc = "done" /\ outcome = "returned"

\* the /products/<id-or-slug> path shape
IsProductLink(link) ==
    LET pre == Origin \o ProductsPrefix
    IN /\ StartsWith(link, pre)
       /\ Len(link) > Len(pre)
       /\ link[Len(pre) + 1] # "/"

Links(rs) == [i \in 1..Len(rs) |-> rs[i].link]

\* number of rows of rs whose link is l
CountLink(rs, l) == Cardinality({j \in 1..Len(rs) : rs[j].link = l})

\* position of l in the sequence q, 0 when absent
PosIn(q, l) ==
    IF \E i \in 1..Len(q) : q[i] = l
    THEN CHOOSE i \in 1..Len(q) : q[i] = l /\ \A j \in 1..(i - 1) : q[j] # l
    ELSE 0

\* C1: when the browser engine cannot be used (import fails, no binary is
\* found, launch raises) depop_scraper_lib.scrape_depop returns exactly the one
\* synthetic row, raises nothing, and has attempted no navigation.
C1_EngineUnavailableGivesSampleRow ==
    (pc = "done" /\ browser = "none") =>
        /\ outcome = "returned"
        /\ result = <<SampleRow>>
        /\ ~navAttempted

C1_Witness ==
    /\ pc = "done"
    /\ browser = "none"
    /\ result = <<SampleRow>>
    /\ outcome = "returned"

\* C2: depop_scraper_lib.scrape_depop never lets an exception reach its caller:
\* whatever fails, the call ends by returning a list of rows.
C2_NeverRaises == pc = "done" => outcome = "returned"

\* C3: every row depop_scraper_lib.scrape_depop returns, on every path, has a
\* link of the /products/<id-or-slug> shape.
C3_EveryReturnedLinkIsProductLink ==
    Returned => \A i \in 1..Len(result) : IsProductLink(result[i].link)

\* C4: the final output holds exactly one row per distinct discovered link,
\* built from the row of the link's first discovery, with deep fetch off and on.
C4_OneRowPerDiscoveredLink ==
    Returned =>
        \A i \in 1..Len(seen) :
            LET l == Origin \o seen[i]
            IN /\ CountLink(result, l) = 1
               /\ \A j \in 1..Len(result) :
                    result[j].link = l => result[j].brand = ScrByLink(rows, l).brand

\* C5: with deep on and more shallow rows than DEEP_FETCH_MAX the output still
\* holds a row for every collected link, the rows not selected for deep fetch
\* with their shallow values.
C5_UnselectedRowsKept ==
    (Returned /\ deep /\ Len(rows) > deep_max) =>
        \A i \in 1..Len(rows) :
            /\ CountLink(result, rows[i].link) = 1
            /\ i > deep_max => \E j \in 1..Len(result) : result[j] = rows[i]

\* C6: the rows of the final output are in the order in which their links were
\* first discovered, for every concurrency and every interleaving of the workers.
C6_OutputInDiscoveryOrder ==
    Returned =>
        \A j1 \in 1..Len(result), j2 \in 1..Len(result) :
            j1 < j2 => PosIn(Links(rows), result[j1].link) < PosIn(Links(rows), result[j2].link)

\* C7: when the visit of a link raises inside deep_fetch_worker, the worker
\* appends exactly one row for the link, equal in all seven fields to the
\* link's shallow row, and it handles every remaining link of its batch before
\* it ends.
C7_FailedVisitKeepsShallowRow ==
    pc \in {"scr_deep", "done"} =>
        \A k \in 1..Len(workers) :
            LET w == workers[k]
            IN /\ \A n \in 1..Len(w.log) :
                    w.log[n].failed =>
                        /\ CountLink(results_out, w.log[n].link) = 1
                        /\ \A j \in 1..Len(results_out) :
                             results_out[j].link = w.log[n].link =>
                                results_out[j] = ScrByLink(rows, w.log[n].link)
               /\ w.pc \in {"close", "returned"} =>
                    /\ Len(w.log) = Len(w.batch)
                    /\ \A n \in 1..Len(w.batch) :
                         /\ w.log[n].link = w.batch[n]
                         /\ CountLink(results_out, w.batch[n]) = 1

C7_Witness ==
    /\ pc = "done"
    /\ outcome = "returned"
    /\ \E k \in 1..Len(workers) :
         /\ Len(workers[k].log) >= 2
         /\ workers[k].log[1].failed
         /\ ~workers[k].log[2].failed
         /\ \E j \in 1..Len(result) :
              /\ result[j].link = workers[k].log[1].link
              /\ result[j] = ScrByLink(rows, result[j].link)
              /\ result[j].brand # <<>>

\* C8: in the deep fetch of depop_scraper_lib a navigation failure on one
\* detail page never aborts the batch: the output holds a row for every link
\* selected for deep fetch.
C8_FailedNavigationKeepsBatch ==
    (Returned /\ workers # NoWorkers) =>
        \A k \in 1..Len(workers) :
            \A n \in 1..Len(workers[k].batch) :
                CountLink(result, workers[k].batch[n]) = 1

\* C9: in the merge a non-empty detail-page title or price replaces the shallow
\* item_name or price, also a non-empty one; an empty detail-page title or price
\* leaves the shallow value.
C9_TitleAndPriceAuthoritative ==
    merged # <<>> =>
        /\ merged.item_name = (IF details.title # <<>> THEN details.title ELSE base.item_name)
        /\ merged.price = (IF details.price # <<>> THEN details.price ELSE base.price)

C9_Witness ==
    /\ merged # <<>>
    /\ base.price # <<>>
    /\ base.item_name # <<>>
    /\ details.price # <<>>
    /\ details.title # <<>>
    /\ merged.price = details.price
    /\ merged.price # base.price
    /\ merged.item_name = details.title

IsSymbolAmount(p) ==
    /\ Len(p) >= 2
    /\ p[1] \in CurrencySymbols
    /\ p[2] \in Digits
    /\ \A i \in 2..Len(p) : p[i] \in Digits \cup {".", ","}

\* C11: the price of every row a scrape returns is the empty string or has the
\* <symbol><amount> form; a card without a recoverable price gives an empty price.
C11_PriceEmptyOrSymbolAmount ==
    Returned =>
        \A i \in 1..Len(result) :
            result[i].price = <<>> \/ IsSymbolAmount(result[i].price)

\* K: the round after which the cumulative link count no longer grows
LastGrowthRound == IF grew > 1 THEN grew ELSE 1

\* C12 (as stated): when the link count stays below MAX_ITEMS and stops growing
\* after round K, the loop has stopped for stall once round K + IDLE_ROUNDS has
\* run, and it never stops for stall at a round that is not past WARMUP_ROUNDS.
C12_StallWithinIdleRoundsOfK ==
    /\ (/\ pc \in {"scr_collect", "scr_extract"}
        /\ Len(seen) < max_items
        /\ round >= LastGrowthRound + IDLE_ROUNDS) => stopped = "stall"
    /\ stopped = "stall" => round > warmup

\* the later of K and the warmup
StallCountingFrom == IF LastGrowthRound > warmup THEN LastGrowthRound ELSE warmup

\* C12 (amended): the loop has stopped for stall once round
\* max(K, WARMUP_ROUNDS) + IDLE_ROUNDS has run, and it never stops for stall at
\* a round that is not past WARMUP_ROUNDS.
C12_StallWithinIdleRoundsPastWarmup ==
    /\ (/\ pc \in {"scr_collect", "scr_extract"}
        /\ Len(seen) < max_items
        /\ round >= StallCountingFrom + IDLE_ROUNDS) => stopped = "stall"
    /\ stopped = "stall" => round > warmup

C12_Witness ==
    /\ pc = "scr_extract"
    /\ stopped = "stall"
    /\ grew >= 1
    /\ warmup > grew
    /\ round = warmup + IDLE_ROUNDS

\* C13: infinite_collect runs at most MAX_ROUNDS rounds, whatever the page does
\* and whatever the other limits are, and has returned once round MAX_ROUNDS
\* has run.
C13_AtMostMaxRounds ==
    /\ round <= MAX_ROUNDS
    /\ pc = "scr_collect" => round < MAX_ROUNDS

C13_Witness ==
    /\ pc = "collect_returned"
    /\ stopped = "rounds"
    /\ round = MAX_ROUNDS
    /\ grew = MAX_ROUNDS
    /\ Len(seen) < max_items
    /\ elapsed <= max_seconds

\* C14: with time as a counter advanced by each wait, infinite_collect stops in
\* the first round in which the elapsed time exceeds MAX_DURATION_S, and its
\* running time exceeds MAX_DURATION_S by at most PAUSE_MAX, also in the rounds
\* with the network-idle wait.
C14_OverrunAtMostOnePause ==
    /\ pc = "scr_collect" => elapsed <= max_seconds
    /\ pc \in {"scr_extract", "collect_returned"} => elapsed <= max_seconds + PAUSE_MAX

\* C15: on every path of a scrape after the browser was launched, browser.close()
\* has been called when the scrape function returns or raises.
C15_BrowserClosedOnEveryPath ==
    (pc = "done" /\ browser # "none") => browser = "closed"

\* C16: when navigation or a page evaluation raises during link collection the
\* loop stops as for a stall and the scrape still returns; with deep off every
\* link gathered up to that point has its row in the result.
C16_CollectionFailureStopsAsStall ==
    (pc = "done" /\ navAttempted) =>
        /\ outcome = "returned"
        /\ ~deep => \A i \in 1..Len(seen) : CountLink(result, Origin \o seen[i]) = 1

\* the priority the docstring of authorize_gspread documents
DocumentedOrder(env) ==
    IF env.cloud THEN <<"table", "json">>
    ELSE IF env.prefer_local THEN <<"local", "table", "json">>
    ELSE <<"table", "json", "local">>

\* the source is present and yields a client
Usable(env, x) ==
    /\ env[x] = "valid"
    /\ x \in {"table", "json"} => env.st

\* C19: authorize_gspread tries the sources in the documented priority (never
\* credentials.json in Cloud) and the client comes from the first source of
\* that order that is present and valid.
C19_DocumentedPriority ==
    pc = "creds_done" =>
        LET doc == DocumentedOrder(creds)
            usable == {i \in 1..Len(doc) : Usable(creds, doc[i])}
        IN /\ \A i \in 1..Len(tried) : PosIn(doc, tried[i]) > 0
           /\ \A i \in 1..Len(tried), j \in 1..Len(tried) :
                i < j => PosIn(doc, tried[i]) < PosIn(doc, tried[j])
           /\ IF usable # {}
              THEN /\ outcome = "returned"
                   /\ gc = doc[CHOOSE i \in usable : \A j \in usable : i <= j]
              ELSE outcome = "raised"

\* the spreadsheet step has failed: authorization, opening or an append
SinkFailed == notices \cap {"auth_info", "save_warning"} # {}

C20_CapStopsRoundAtOnce ==
    [][ (pc = "scr_collect" /\ Len(seen') >= max_items) =>
            /\ pc' = "scr_extract"
            /\ stopped' = "cap"
            /\ elapsed' = elapsed
            /\ stable' = stable
            /\ last_total' = last_total
            /\ outcome' = outcome ]_vars

C20_Witness ==
    /\ pc = "scr_extract"
    /\ stopped = "cap"
    /\ round >= 2
    /\ Len(seen) > max_items
    /\ last_total < max_items
    /\ elapsed <= max_seconds

\* C18: with deep off, MAX_ITEMS = N and a page that yields N distinct product
\* links within its first two rounds, the pipeline returns exactly N rows, each
\* with a product link and empty size and condition.
C18_ScenarioReturnsNRows ==
    (/\ pc = "done"
     /\ ~deep
     /\ browser # "none"
     /\ round <= 2
     /\ Cardinality(seen) = max_items) =>
        /\ outcome = "returned"
        /\ Len(result) = max_items
        /\ \A i \in 1..Len(result) :
             /\ IsProductLink(result[i].link)
             /\ result[i].size = <<>>
             /\ result[i].condition = <<>>

\* the rounds of infinite_collect that went through the counter step
CollectorAtRest == pc \in {"scr_collect", "scr_extract", "collect_returned"}

\* the consecutive most recent rounds past the warmup without growth (the total
\* before round 1 is 0, the initial last_total)
NoGrowthRun == round - (IF grew > warmup THEN grew ELSE warmup)

\* C21 (as stated): after every round past WARMUP_ROUNDS the stable counter is
\* the number of consecutive most recent post-warmup rounds whose total
\* equalled the total of the round before (zero if the last round grew);
\* rounds at or before WARMUP_ROUNDS leave the counter at its initial 0; the
\* loop stops for stall exactly when the counter reaches IDLE_ROUNDS.
C21_StableAfterEveryRound ==
    CollectorAtRest =>
        /\ round > warmup => stable = NoGrowthRun
        /\ round <= warmup => stable = 0
        /\ stopped = "stall" <=> stable >= IDLE_ROUNDS

\* C21 (amended): the same, for the rounds past WARMUP_ROUNDS that the item-cap
\* test lets through; the round that ends at the cap test leaves the counter
\* as the round before left it.
C21_StableCountsNoGrowthRounds ==
    CollectorAtRest =>
        /\ (round > warmup /\ stopped # "cap") => stable = NoGrowthRun
        /\ round <= warmup => stable = 0
        /\ stopped = "stall" <=> stable >= IDLE_ROUNDS

C21_Witness ==
    /\ pc = "scr_extract"
    /\ stopped = "stall"
    /\ warmup >= 1
    /\ grew > warmup
    /\ stable = IDLE_ROUNDS
    /\ round = grew + IDLE_ROUNDS

\* C22: the collection loop of depop_scraper_lib stops once IDLE_ROUNDS
\* consecutive rounds found no new link and after at most MAX_ROUNDS rounds,
\* also below the item cap and inside the time budget. Stated for the loop that
\* is still running: it has run fewer than MAX_ROUNDS rounds and, when no link
\* was found since the start, fewer than IDLE_ROUNDS rounds.
C22_LibStopsOnStallAndRoundCap ==
    pc = "lib_collect" =>
        /\ round < MAX_ROUNDS
        /\ seen = {} => round < IDLE_ROUNDS

\* a deep-fetch pass is running
DeepRunning == pc \in {"lib_deep", "scr_deep"}

\* the tasks between the start of a navigation and the append of its row: the
\* ones inside "async with sem"
InProgress == {k \in 1..Len(workers) : workers[k].holding}

\* C23: in every interleaving of the deep-fetch tasks the number of detail-page
\* visits in progress is at most DEEP_FETCH_CONCURRENCY: a task visits only
\* while it holds a slot, and the visits in progress and the free slots of the
\* semaphore add up to DEEP_FETCH_CONCURRENCY.
C23_VisitsBoundedByConcurrency ==
    DeepRunning =>
        /\ Cardinality(InProgress) <= concurrency
        /\ \A k \in 1..Len(workers) :
             workers[k].pc \in {"visit", "fetch"} <=> workers[k].holding
        /\ sem >= 0
        /\ sem + Cardinality(InProgress) = concurrency

C23_Witness ==
    /\ pc = "scr_deep"
    /\ concurrency >= 2
    /\ Cardinality(InProgress) = concurrency
    /\ sem = 0

\* C24: a deep-fetch task closes its page before it releases its semaphore
\* slot, also when the visit raises: no task has an open page while it holds
\* no slot, and every page opened for deep fetch is closed when the pass ends.
C24_PageClosedBeforeSlotReleased ==
    /\ \A k \in 1..Len(workers) : workers[k].page = "open" => workers[k].holding
    /\ pc = "done" => \A k \in 1..Len(workers) : workers[k].page = "closed"

\* the visits of link l by task k
VisitsBy(k, l) == {n \in 1..Len(workers[k].log) : workers[k].log[n].link = l}

\* the first min(DEEP_FETCH_MAX, number of links) links in discovery order
SelectedCount == IF deep_max < Len(rows) THEN deep_max ELSE Len(rows)

\* the batches handed to the tasks partition the selection
BatchesPartitionSelection ==
    \A i \in 1..Len(rows) :
        LET holders == {k \in 1..Len(workers) : PosIn(workers[k].batch, rows[i].link) > 0}
        IN /\ i <= SelectedCount => Cardinality(holders) = 1
           /\ i > SelectedCount => holders = {}
           /\ \A k \in holders :
                Cardinality({n \in 1..Len(workers[k].batch) :
                                workers[k].batch[n] = rows[i].link}) = 1

\* C25: deep fetch visits exactly the first min(DEEP_FETCH_MAX, number of
\* distinct links) links in discovery order: the batches partition that
\* selection, and when the pass has ended every selected link was visited
\* exactly once, by exactly one task, and no other link was visited.
C25_SelectedLinksVisitedOnce ==
    /\ DeepRunning => BatchesPartitionSelection
    /\ (pc = "done" /\ workers # NoWorkers) =>
         \A i \in 1..Len(rows) :
             LET visitors == {k \in 1..Len(workers) : VisitsBy(k, rows[i].link) # {}}
             IN IF i <= SelectedCount
                THEN /\ Cardinality(visitors) = 1
                     /\ \A k \in visitors : Cardinality(VisitsBy(k, rows[i].link)) = 1
                ELSE visitors = {}

\* the page has been evaluated by one of the two extractors
Extracted == pc \in {"detail_script", "detail_lib"}

\* the first non-empty text of a list of layer results
RECURSIVE FirstNonEmpty(_)
FirstNonEmpty(q) ==
    IF q = <<>> THEN <<>>
    ELSE IF Head(q) # <<>> THEN Head(q) ELSE FirstNonEmpty(Tail(q))

\* what the DOM layer offers for the size
DomSize(p) == FirstNonEmpty(<<p.testidSize, p.dtSize>>)

\* C26: size and condition come from the first layer that yields something, in
\* the order page-state JSON, ld+json / microdata, DOM, free text; when the
\* page-state JSON and a DOM element both carry a size, the JSON value is
\* returned. (The condition is compared on pages without a granular phrase.)
C26_JsonBeforeDom ==
    Extracted =>
        /\ dom.chipSize = <<>> =>
             details.size =
                FirstNonEmpty(<<dom.nextData.size, dom.ldSize, DomSize(dom), dom.textSize>>)
        /\ (dom.nextData.size # <<>> /\ DomSize(dom) # <<>>) =>
             details.size = dom.nextData.size
        /\ (dom.textCond = <<>> /\ dom.nextData.condition # <<>>) =>
             details.condition = PrettySchemaCondition(dom.nextData.condition)

\* the condition the layers before the free text found: the extractor's result
\* on the same page without the granular phrase
EarlierCondition ==
    LET p0 == [dom EXCEPT !.textCond = <<>>]
    IN IF pc = "detail_script" THEN ScrDetailCondition(p0) ELSE LibDetailCondition(p0)

\* C29: the granular phrase of the body text replaces the condition only when
\* the earlier layers found nothing or the generic "Used"; a specific condition
\* of an earlier layer is never replaced by it.
C29_GranularReplacesOnlyUsed ==
    (Extracted /\ dom.textCond # <<>>) =>
        IF EarlierCondition = <<>> \/ Lower(EarlierCondition) = Lower(Used)
        THEN details.condition = dom.textCond
        ELSE details.condition = EarlierCondition

\* the item name the card extraction is to give: the slug title without the
\* brand guess when that is a case-insensitive prefix of it, trimmed
ExpectedItemName(slug, brand) ==
    IF brand # <<>> /\ StartsWith(Lower(slug), Lower(brand))
    THEN Strip(SubSeq(slug, Len(brand) + 1, Len(slug)))
    ELSE slug

\* C27: in the card extraction of depop_scraper_lib every card whose href was
\* taken up has its row, and the row's item_name is the slug title, without the
\* brand guess when that is a case-insensitive prefix of the slug title.
C27_BrandPrefixStripped ==
    \A h \in seen :
        /\ CountLink(rows, Origin \o h) = 1
        /\ \A j \in 1..Len(rows) :
             rows[j].link = Origin \o h =>
                rows[j].item_name = ExpectedItemName(LibSlug(h), rows[j].brand)

\* C28: a scrape never returns more than MAX_ITEMS rows, also when one scroll
\* round reveals more new links than remain under the cap.
C28_AtMostMaxItemsRows ==
    Returned => Len(result) <= max_items

CredSources == {"table", "json", "local"}

\* C30: authorize_gspread returns a client whenever at least one credential
\* source is present and valid; when no source is usable it raises
\* RuntimeError; it raises no other kind of exception.
C30_ClientOrRuntimeError ==
    pc = "creds_done" =>
        /\ (\E x \in CredSources : Usable(creds, x)) =>
             (outcome = "returned" /\ gc \in CredSources)
        /\ (\A x \in CredSources : ~Usable(creds, x)) =>
             (outcome = "raised" /\ exc = "RuntimeError")
        /\ outcome = "raised" => exc = "RuntimeError"


=============================================================================
